---- MODULE Spec2Model ----
(***************************************************************************)
(* Model of the request-parameter binder of beego's context.BeegoInput    *)
(* (Bind / bind / bindValue / bindInt / bindUint / bindFloat / bindString  *)
(* / bindBool / bindSlice / bindStruct / bindPoint / bindMap, with Param,  *)
(* Query and ParseFormOrMulitForm).                                        *)
(*                                                                         *)
(* Go strings are sequences of one-character strings, so that prefix      *)
(* tests, bracket scanning and number parsing are computed, not assumed.  *)
(* A reflect.Value is a record [t, v, addr]: its type name, its payload   *)
(* and whether it is addressable (reflect.Value.CanAddr).                 *)
(***************************************************************************)
EXTENDS Integers, Sequences, FiniteSets, TLC

\* ------------------------------------------------------------ bounds
\* Most entries of a form.
MaxKeys == 2
\* Most values one form key carries.
MaxVals == 2
\* Deepest nesting of bind calls before the Go runtime's stack limit is taken
\* to be exceeded (the limit itself is 1 GB of stack; any type of the model
\* nests far less).
MaxDepth == 8
\* Most Bind calls one request makes.
MaxCalls == 2

\* ------------------------------------------------------------ strings
DigitVal ==
  [c \in {"0", "1", "2", "3", "4", "5", "6", "7", "8", "9"} |->
     CASE c = "0" -> 0 [] c = "1" -> 1 [] c = "2" -> 2 [] c = "3" -> 3
       [] c = "4" -> 4 [] c = "5" -> 5 [] c = "6" -> 6 [] c = "7" -> 7
       [] c = "8" -> 8 [] c = "9" -> 9]

IsDigit(c) == c \in DOMAIN DigitVal

AllDigits(s) == s # <<>> /\ \A i \in 1..Len(s) : IsDigit(s[i])

RECURSIVE DigitsValue(_)
DigitsValue(s) ==
  IF s = <<>> THEN 0
  ELSE 10 * DigitsValue(SubSeq(s, 1, Len(s) - 1)) + DigitVal[s[Len(s)]]

\* strings.HasPrefix
HasPrefix(s, p) == Len(s) >= Len(p) /\ SubSeq(s, 1, Len(p)) = p

\* strings.Index(s, c) for a one-character c: 0-based, -1 when absent.
IndexOf(s, c) ==
  IF \E i \in 1..Len(s) : s[i] = c
  THEN (CHOOSE i \in 1..Len(s) : s[i] = c /\ \A j \in 1..(i - 1) : s[j] # c) - 1
  ELSE -1

\* Go's s[lo:hi] (0-based, hi exclusive).
Slice(s, lo, hi) == SubSeq(s, lo + 1, hi)

\* strings.ToLower on the letters the model's values use.
LowerChar(c) ==
  CASE c = "T" -> "t" [] c = "R" -> "r" [] c = "U" -> "u" [] c = "E" -> "e"
    [] c = "O" -> "o" [] c = "N" -> "n" [] OTHER -> c

ToLower(s) == [i \in 1..Len(s) |-> LowerChar(s[i])]

\* strings.TrimSpace
RECURSIVE TrimLeft(_)
TrimLeft(s) == IF s # <<>> /\ s[1] = " " THEN TrimLeft(Tail(s)) ELSE s

RECURSIVE TrimRight(_)
TrimRight(s) ==
  IF s # <<>> /\ s[Len(s)] = " " THEN TrimRight(SubSeq(s, 1, Len(s) - 1)) ELSE s

TrimSpace(s) == TrimRight(TrimLeft(s))

\* strconv.ParseUint(s, 10, 64): digits only, no sign.  Every digit string of
\* the model has at most four digits, far inside 64 bits, so the range
\* error of ParseUint is out of reach.
ParseUint(s) ==
  IF AllDigits(s) THEN [err |-> FALSE, n |-> DigitsValue(s)]
  ELSE [err |-> TRUE, n |-> 0]

\* strconv.ParseInt(s, 10, 64): an optional sign, then digits.
ParseInt(s) ==
  IF s = <<>> THEN [err |-> TRUE, n |-> 0]
  ELSE IF s[1] = "-"
       THEN (IF AllDigits(Tail(s)) THEN [err |-> FALSE, n |-> 0 - DigitsValue(Tail(s))]
             ELSE [err |-> TRUE, n |-> 0])
       ELSE IF s[1] = "+"
            THEN (IF AllDigits(Tail(s)) THEN [err |-> FALSE, n |-> DigitsValue(Tail(s))]
                  ELSE [err |-> TRUE, n |-> 0])
            ELSE (IF AllDigits(s) THEN [err |-> FALSE, n |-> DigitsValue(s)]
                  ELSE [err |-> TRUE, n |-> 0])

\* strconv.Atoi: ParseInt's number; 0 with the error on bad syntax.
Atoi(s) == ParseInt(s)

\* strconv.ParseFloat(s, 64) on decimal text "d", "-d", "d.d": the number in
\* thousandths.  Exponents, hex floats, inf and nan are not among the model's
\* values.
ParseFloat(s) ==
  LET neg  == s # <<>> /\ s[1] = "-"
      body == IF s # <<>> /\ s[1] \in {"-", "+"} THEN Tail(s) ELSE s
      dot  == IndexOf(body, ".")
      ip   == IF dot = -1 THEN body ELSE Slice(body, 0, dot)
      fp   == IF dot = -1 THEN <<>> ELSE Slice(body, dot + 1, Len(body))
      ok   == /\ (ip # <<>> \/ fp # <<>>)
              /\ \A i \in 1..Len(ip) : IsDigit(ip[i])
              /\ \A i \in 1..Len(fp) : IsDigit(fp[i])
              /\ Len(fp) <= 3
      scale == CASE Len(fp) = 0 -> 1000 [] Len(fp) = 1 -> 100
                 [] Len(fp) = 2 -> 10 [] OTHER -> 1
      mag  == DigitsValue(ip) * 1000 + DigitsValue(fp) * scale
  IN IF ok THEN [err |-> FALSE, n |-> IF neg THEN 0 - mag ELSE mag]
     ELSE [err |-> TRUE, n |-> 0]

\* ------------------------------------------------------------ types
\* The type descriptors (reflect.Type) of the destinations the model binds.
IntTypes == {"int", "int8", "int16", "int32", "int64"}
UintTypes == {"uint", "uint8", "uint16", "uint32", "uint64"}
FloatTypes == {"float32", "float64"}
SliceTypes == {"[]int", "[]int8", "[]string", "[]bool", "[]float64", "[]*int"}
StructTypes == {"User", "Holder", "Node"}
PtrTypes == {"*int", "*uint8", "*float64", "*string", "*bool", "*[]int",
             "*User", "*map[string]int", "*Node"}
MapTypes == {"map[string]int", "map[int]string"}
ScalarTypes == IntTypes \cup UintTypes \cup FloatTypes \cup {"string", "bool"}

\* reflect.Type.Kind()
Kind(t) ==
  CASE t \in IntTypes -> "int"
    [] t \in UintTypes -> "uint"
    [] t \in FloatTypes -> "float"
    [] t = "string" -> "string"
    [] t = "bool" -> "bool"
    [] t \in SliceTypes -> "slice"
    [] t \in StructTypes -> "struct"
    [] t \in PtrTypes -> "ptr"
    [] t \in MapTypes -> "map"
    [] OTHER -> "invalid"

\* reflect.Type.Elem() of a slice, pointer or map type.
Elem(t) ==
  CASE t = "[]int" -> "int" [] t = "[]int8" -> "int8" [] t = "[]string" -> "string"
    [] t = "[]bool" -> "bool" [] t = "[]float64" -> "float64" [] t = "[]*int" -> "*int"
    [] t = "*int" -> "int" [] t = "*uint8" -> "uint8" [] t = "*float64" -> "float64"
    [] t = "*string" -> "string" [] t = "*bool" -> "bool" [] t = "*[]int" -> "[]int"
    [] t = "*User" -> "User" [] t = "*map[string]int" -> "map[string]int"
    [] t = "*Node" -> "Node"
    [] t = "map[string]int" -> "int" [] t = "map[int]string" -> "string"

\* reflect.Type.Key() of a map type.
KeyType(t) == CASE t = "map[string]int" -> "string" [] t = "map[int]string" -> "int"

\* The width of an integer kind (int and uint are 64 bits wide).
Bits(t) ==
  CASE t \in {"int8", "uint8"} -> 8
    [] t \in {"int16", "uint16"} -> 16
    [] t \in {"int32", "uint32"} -> 32
    [] OTHER -> 64

\* The struct types: field name -> [typ, exported].
\*   type User struct { N string; A int; B bool; s string }
\*   type Holder struct { P *int; Q *string }
\*   type Node struct { L *Node }
Fields(t) ==
  CASE t = "User" -> [N |-> [typ |-> "string", exported |-> TRUE],
                      A |-> [typ |-> "int", exported |-> TRUE],
                      B |-> [typ |-> "bool", exported |-> TRUE],
                      s |-> [typ |-> "string", exported |-> FALSE]]
    [] t = "Holder" -> [P |-> [typ |-> "*int", exported |-> TRUE],
                        Q |-> [typ |-> "*string", exported |-> TRUE]]
    [] t = "Node" -> [L |-> [typ |-> "*Node", exported |-> TRUE]]

\* A field name is a Go string; the struct types use one-letter names.
FieldNameOf(s) == IF Len(s) = 1 THEN s[1] ELSE ""

\* ------------------------------------------------------------ values
NilPtr == [isnil |-> TRUE]
PtrTo(v) == [isnil |-> FALSE, to |-> v]

\* The payload of reflect.Zero(t).
RECURSIVE ZeroV(_)
ZeroV(t) ==
  CASE Kind(t) \in {"int", "uint", "float"} -> 0
    [] Kind(t) = "string" -> <<>>
    [] Kind(t) = "bool" -> FALSE
    [] Kind(t) = "slice" -> <<>>
    [] Kind(t) = "map" -> <<>>
    [] Kind(t) = "ptr" -> NilPtr
    [] Kind(t) = "struct" -> [f \in DOMAIN Fields(t) |-> ZeroV(Fields(t)[f].typ)]

\* A reflect.Value: type, payload, CanAddr.
Val(t, v, addr) == [t |-> t, v |-> v, addr |-> addr]

\* reflect.Value.SetInt on a kind of the given width: Go's conversion
\* int8(x), int16(x) keeps the low bits.  Every number of the model is below
\* 2^31, so the 32- and 64-bit conversions keep it as it is.
WrapInt(n, bits) ==
  IF bits >= 32 THEN n
  ELSE LET m == 2 ^ bits IN ((n + m \div 2) % m) - m \div 2

\* reflect.Value.SetUint likewise (uint8(x), uint16(x)).
WrapUint(n, bits) == IF bits >= 32 THEN n ELSE n % (2 ^ bits)


\* ------------------------------------------------------------ binder
\* What a call returns: "ok" with the reflect.Value rv, "panic" (a run-time
\* panic of package reflect), or "overflow" (the goroutine's stack limit is
\* exceeded, which ends the process).  depth is the deepest nesting of
\* dispatcher frames (bind, bindValue) the call reached.
Ok(rv, d) == [st |-> "ok", rv |-> rv, depth |-> d]
Panic(d) == [st |-> "panic", rv |-> Val("invalid", 0, FALSE), depth |-> d]
Overflow(d) == [st |-> "overflow", rv |-> Val("invalid", 0, FALSE), depth |-> d]

Max(a, b) == IF a >= b THEN a ELSE b

\* url.Values.Get: the first value of the key, "" when there is none.
Get(m, key) == IF key \in DOMAIN m /\ m[key] # <<>> THEN m[key][1] ELSE <<>>

\* BeegoInput.Param
Param(in, key) == IF key \in DOMAIN in.Params THEN in.Params[key] ELSE <<>>

\* BeegoInput.Query: the route param when it is not empty, else the form's
\* first value.  in.Parsed is Request.Form after the ParseForm that Query runs
\* when Request.Form is nil.
Query(in, key) ==
  IF Param(in, key) # <<>> THEN Param(in, key) ELSE Get(in.Parsed, key)

bindInt(val, typ) ==
  LET p == ParseInt(val)
  IN IF p.err THEN Val(typ, ZeroV(typ), FALSE)
     ELSE Val(typ, WrapInt(p.n, Bits(typ)), TRUE)

bindUint(val, typ) ==
  LET p == ParseUint(val)
  IN IF p.err THEN Val(typ, ZeroV(typ), FALSE)
     ELSE Val(typ, WrapUint(p.n, Bits(typ)), TRUE)

bindFloat(val, typ) ==
  LET p == ParseFloat(val)
  IN IF p.err THEN Val(typ, ZeroV(typ), FALSE) ELSE Val(typ, p.n, TRUE)

\* reflect.ValueOf(val): a string, not addressable.
bindString(val, typ) == Val("string", val, FALSE)

bindBool(val, typ) ==
  LET v == TrimSpace(ToLower(val))
  IN Val("bool", v \in {<<"t", "r", "u", "e">>, <<"o", "n">>, <<"1">>}, FALSE)

\* The bracket token of reqKey under the prefix key, as bindSlice reads it:
\* the index, -1 when the brackets are empty or unclosed, and where the
\* sub-key starts.
SliceIndex(reqKey, key) ==
  LET leftBracket == Len(key)
      rightBracket == IndexOf(Slice(reqKey, Len(key), Len(reqKey)), "]") + Len(key)
  IN [index |-> IF rightBracket > leftBracket + 1
                THEN Atoi(Slice(reqKey, leftBracket + 1, rightBracket)).n
                ELSE -1,
      subKeyIndex |-> rightBracket + 1]

\* The second loop of bindSlice: resultArray.Index(i).Set for an indexed
\* value, reflect.Append for an unindexed one.  Both panic on a value of
\* another type than the element type.
RECURSIVE bindSliceFill(_, _, _, _)
bindSliceFill(typ, sliceValues, i, resultArray) ==
  IF i > Len(sliceValues) THEN [st |-> "ok", arr |-> resultArray]
  ELSE LET sv == sliceValues[i]
       IN IF sv.value.t # Elem(typ) THEN [st |-> "panic", arr |-> resultArray]
          ELSE IF sv.index # -1
               THEN bindSliceFill(typ, sliceValues, i + 1,
                      [resultArray EXCEPT ![sv.index + 1] = sv.value.v])
               ELSE bindSliceFill(typ, sliceValues, i + 1,
                      Append(resultArray, sv.value.v))

\* Whether bindSlice takes reqKey for an indexed element of the prefix key.
SliceIndexed(reqKey, key) ==
  HasPrefix(reqKey, key \o <<"[">>) /\ SliceIndex(reqKey, key).index > -1

\* One turn of the first loop of bindSlice, for the entry reqKey -> vals.
\* acc = [maxIndex, numNoIndex, sliceValues, st, depth] is the loop's state,
\* r what input.bind returned for an indexed reqKey, rs what input.bindValue
\* returned for each of vals otherwise.
bindSliceStep(acc, key, d, reqKey, vals, r, rs) ==
  LET index == SliceIndex(reqKey, key).index
      bad == {j \in 1..Len(vals) : rs[j].st # "ok"}
      dd == IF Len(vals) = 0 THEN d
            ELSE CHOOSE x \in {rs[j].depth : j \in 1..Len(vals)} :
                   \A j \in 1..Len(vals) : rs[j].depth <= x
  IN IF acc.st # "ok" THEN acc
     ELSE IF ~HasPrefix(reqKey, key \o <<"[">>) THEN acc
     ELSE IF index > -1
     THEN [maxIndex |-> Max(acc.maxIndex, index),
           numNoIndex |-> acc.numNoIndex,
           sliceValues |-> Append(acc.sliceValues, [index |-> index, value |-> r.rv]),
           st |-> r.st,
           depth |-> Max(acc.depth, r.depth)]
     ELSE [maxIndex |-> acc.maxIndex,
           numNoIndex |-> acc.numNoIndex + Len(vals),
           sliceValues |-> acc.sliceValues \o
              [j \in 1..Len(vals) |-> [index |-> -1, value |-> rs[j].rv]],
           st |-> IF bad = {} THEN "ok"
                  ELSE rs[CHOOSE j \in bad : \A k \in bad : j <= k].st,
           depth |-> Max(acc.depth, dd)]

\* bindSliceResult with the slice made at its full capacity: the appended
\* values land behind maxIndex+1+numNoIndex zero elements.
bindSliceResultFullLen(typ, acc) ==
  LET made == [i \in 1..(acc.maxIndex + 1 + acc.numNoIndex) |-> ZeroV(Elem(typ))]
      f == bindSliceFill(typ, acc.sliceValues, 1, made)
  IN IF acc.st = "overflow" THEN Overflow(acc.depth)
     ELSE IF acc.st = "panic" THEN Panic(acc.depth)
     ELSE IF f.st = "ok" THEN Ok(Val(typ, f.arr, FALSE), acc.depth)
     ELSE Panic(acc.depth)

\* reflect.MakeSlice(typ, maxIndex+1, maxIndex+1+numNoIndex) and the second
\* loop of bindSlice.
bindSliceResult(typ, acc) ==
  LET made == [i \in 1..(acc.maxIndex + 1) |-> ZeroV(Elem(typ))]
      f == bindSliceFill(typ, acc.sliceValues, 1, made)
  IN IF acc.st = "overflow" THEN Overflow(acc.depth)
     ELSE IF acc.st = "panic" THEN Panic(acc.depth)
     ELSE IF f.st = "ok" THEN Ok(Val(typ, f.arr, FALSE), acc.depth)
     ELSE Panic(acc.depth)

\* reqKey[len(key)+1:], the field name bindStruct reads from a key.
StructFieldName(reqKey, key) == Slice(reqKey, Len(key) + 1, Len(reqKey))

\* Whether bindStruct finds a settable field for reqKey: FieldByName gives a
\* valid field and CanSet holds (the field is exported).
StructSettable(reqKey, key, typ) ==
  /\ HasPrefix(reqKey, key \o <<".">>)
  /\ FieldNameOf(StructFieldName(reqKey, key)) \in DOMAIN Fields(typ)
  /\ Fields(typ)[FieldNameOf(StructFieldName(reqKey, key))].exported

\* One turn of the loop of bindStruct.  acc = [result, fieldValues, st, depth]:
\* result is reflect.New(typ).Elem(), fieldValues the names bound so far; r is
\* what input.bindValue returned for the field.
bindStructStep(acc, key, typ, reqKey, r) ==
  LET fieldName == StructFieldName(reqKey, key)
      f == FieldNameOf(fieldName)
  IN IF acc.st # "ok" THEN acc
     ELSE IF ~HasPrefix(reqKey, key \o <<".">>) THEN acc
     ELSE IF fieldName \in acc.fieldValues THEN acc
     ELSE IF ~StructSettable(reqKey, key, typ) THEN acc
     ELSE [result |-> IF r.st = "ok" /\ r.rv.t = Fields(typ)[f].typ
                      THEN [acc.result EXCEPT ![f] = r.rv.v]
                      ELSE acc.result,
           fieldValues |-> acc.fieldValues \cup {fieldName},
           st |-> IF r.st = "ok" /\ r.rv.t # Fields(typ)[f].typ THEN "panic" ELSE r.st,
           depth |-> Max(acc.depth, r.depth)]

bindStructResult(typ, acc) ==
  IF acc.st = "overflow" THEN Overflow(acc.depth)
  ELSE IF acc.st = "panic" THEN Panic(acc.depth)
  ELSE Ok(Val(typ, acc.result, TRUE), acc.depth)

\* reflect.Value.Addr on what input.bind returned: a panic on a value that is
\* not addressable.  An addressable value bind returns has the type typ.Elem().
bindPointAddr(typ, r) ==
  IF r.st # "ok" THEN r
  ELSE IF ~r.rv.addr THEN Panic(r.depth)
  ELSE Ok(Val(typ, PtrTo(r.rv.v), FALSE), r.depth)

\* reflect.Value.SetMapIndex: the later entry of a key replaces the earlier.
SetMapIndex(m, k, v) == [x \in DOMAIN m \cup {k} |-> IF x = k THEN v ELSE m[x]]

\* Whether bindMap takes paramName for an entry of the prefix key.
MapEntry(paramName, key) ==
  HasPrefix(paramName, key \o <<"[">>) /\ paramName[Len(paramName)] = "]"

\* One turn of the loop of bindMap.  acc = [result, st, depth]; kv.key and
\* kv.val are what input.bindValue returned for the bracket text and for the
\* first value.
bindMapStep(acc, key, typ, paramName, kv) ==
  LET st == IF kv.key.st # "ok" THEN kv.key.st
            ELSE IF kv.val.st # "ok" THEN kv.val.st
            ELSE IF kv.key.rv.t # KeyType(typ) \/ kv.val.rv.t # Elem(typ) THEN "panic"
            ELSE "ok"
  IN IF acc.st # "ok" THEN acc
     ELSE IF ~MapEntry(paramName, key) THEN acc
     ELSE [result |-> IF st = "ok"
                      THEN SetMapIndex(acc.result, kv.key.rv.v, kv.val.rv.v)
                      ELSE acc.result,
           st |-> st,
           depth |-> Max(acc.depth, Max(kv.key.depth, kv.val.depth))]

bindMapResult(typ, acc) ==
  IF acc.st = "overflow" THEN Overflow(acc.depth)
  ELSE IF acc.st = "panic" THEN Panic(acc.depth)
  ELSE Ok(Val(typ, acc.result, FALSE), acc.depth)

\* url.Values{"": {val}}: the one-entry mapping of by-literal dispatch.
Literal(val) == [m |-> [k \in {<<>>} |-> <<val>>], ord |-> << <<>> >>]

\* What the switch of bind and of bindValue leaves in rv when no case matches.
NoCase(d) == Ok(Val("int", 0, FALSE), d)

\* A nested call of the dispatcher: input.bind(s, typ) when byKey,
\* input.bindValue(s, typ) otherwise.
Call(byKey, s, typ) == [byKey |-> byKey, s |-> s, typ |-> typ]

RECURSIVE Concat(_)
Concat(seqs) == IF seqs = <<>> THEN <<>> ELSE Head(seqs) \o Concat(Tail(seqs))

\* The dispatcher calls the first loop of bindSlice makes for one entry.
bindSliceEntryCalls(reqKey, vals, key, typ) ==
  IF ~HasPrefix(reqKey, key \o <<"[">>) THEN <<>>
  ELSE IF SliceIndexed(reqKey, key)
  THEN <<Call(TRUE, Slice(reqKey, 0, SliceIndex(reqKey, key).subKeyIndex), Elem(typ))>>
  ELSE [j \in 1..Len(vals) |-> Call(FALSE, vals[j], Elem(typ))]

\* The dispatcher calls bindSlice makes, in the order params.ord that its
\* range statement happens to take.
bindSliceCalls(params, key, typ) ==
  Concat([i \in 1..Len(params.ord) |->
            bindSliceEntryCalls(params.ord[i], params.m[params.ord[i]], key, typ)])

\* The entries of params before the i-th.
Before(params, i) == [m |-> params.m, ord |-> SubSeq(params.ord, 1, i - 1)]

\* bindSlice, given what its dispatcher calls returned (rs, in call order).
\* scan[i] is the first loop's state after i entries.
bindSlice(params, key, typ, d, rs) ==
  LET scan[i \in 0..Len(params.ord)] ==
        IF i = 0
        THEN [maxIndex |-> -1, numNoIndex |-> 0, sliceValues |-> <<>>,
              st |-> "ok", depth |-> d]
        ELSE LET off == Len(bindSliceCalls(Before(params, i), key, typ))
             IN bindSliceStep(scan[i - 1], key, d,
                  params.ord[i], params.m[params.ord[i]],
                  IF off < Len(rs) THEN rs[off + 1] ELSE NoCase(d),
                  SubSeq(rs, off + 1, off + Len(params.m[params.ord[i]])))
  IN bindSliceResult(typ, scan[Len(params.ord)])

\* bindStructCalls binding the last value of a key's sequence, not the first.
bindStructCallsLast(params, key, typ) ==
  Concat([i \in 1..Len(params.ord) |->
            IF StructSettable(params.ord[i], key, typ)
            THEN <<Call(FALSE, params.m[params.ord[i]][Len(params.m[params.ord[i]])],
                     Fields(typ)[FieldNameOf(StructFieldName(params.ord[i], key))].typ)>>
            ELSE <<>>])

\* The dispatcher calls bindStruct makes: one per key of a settable field.
bindStructCalls(params, key, typ) ==
  Concat([i \in 1..Len(params.ord) |->
            IF StructSettable(params.ord[i], key, typ)
            THEN <<Call(FALSE, params.m[params.ord[i]][1],
                     Fields(typ)[FieldNameOf(StructFieldName(params.ord[i], key))].typ)>>
            ELSE <<>>])

bindStruct(params, key, typ, d, rs) ==
  LET scan[i \in 0..Len(params.ord)] ==
        IF i = 0
        THEN [result |-> ZeroV(typ), fieldValues |-> {}, st |-> "ok", depth |-> d]
        ELSE LET off == Len(bindStructCalls(Before(params, i), key, typ))
             IN bindStructStep(scan[i - 1], key, typ, params.ord[i],
                  IF off < Len(rs) THEN rs[off + 1] ELSE NoCase(d))
  IN bindStructResult(typ, scan[Len(params.ord)])

\* bindPoint: input.bind(key, typ.Elem()).Addr()
bindPointCalls(key, typ) == <<Call(TRUE, key, Elem(typ))>>

bindPoint(typ, rs) == bindPointAddr(typ, rs[1])

\* The dispatcher calls bindMap makes: the bracket text against the key type
\* and the first value against the value type, per entry.
bindMapCalls(params, key, typ) ==
  Concat([i \in 1..Len(params.ord) |->
            IF MapEntry(params.ord[i], key)
            THEN <<Call(FALSE, Slice(params.ord[i], Len(key) + 1, Len(params.ord[i]) - 1),
                     KeyType(typ)),
                   Call(FALSE, params.m[params.ord[i]][1], Elem(typ))>>
            ELSE <<>>])

bindMap(params, key, typ, d, rs) ==
  LET scan[i \in 0..Len(params.ord)] ==
        IF i = 0 THEN [result |-> <<>>, st |-> "ok", depth |-> d]
        ELSE LET off == Len(bindMapCalls(Before(params, i), key, typ))
             IN bindMapStep(scan[i - 1], key, typ, params.ord[i],
                  IF off + 1 < Len(rs) THEN [key |-> rs[off + 1], val |-> rs[off + 2]]
                  ELSE [key |-> NoCase(d), val |-> NoCase(d)])
  IN bindMapResult(typ, scan[Len(params.ord)])

\* The scalar cases of bind: the zero int when Query finds no value.
bindScalar(val, typ, d) ==
  IF Len(val) = 0 THEN NoCase(d)
  ELSE CASE Kind(typ) = "int" -> Ok(bindInt(val, typ), d)
         [] Kind(typ) = "uint" -> Ok(bindUint(val, typ), d)
         [] Kind(typ) = "float" -> Ok(bindFloat(val, typ), d)
         [] Kind(typ) = "string" -> Ok(bindString(val, typ), d)
         [] Kind(typ) = "bool" -> Ok(bindBool(val, typ), d)

\* The scalar cases of bindValue.
bindValueScalar(val, typ, d) ==
  CASE Kind(typ) = "int" -> Ok(bindInt(val, typ), d)
    [] Kind(typ) = "uint" -> Ok(bindUint(val, typ), d)
    [] Kind(typ) = "float" -> Ok(bindFloat(val, typ), d)
    [] Kind(typ) = "string" -> Ok(bindString(val, typ), d)
    [] Kind(typ) = "bool" -> Ok(bindBool(val, typ), d)

\* The mapping and the prefix the composite binders get: bind passes
\* &input.Request.Form and key, bindValue passes &url.Values{"": {val}} and "".
ParamsOf(in, byKey, s) == IF byKey THEN in.Form ELSE Literal(s)
PrefixOf(byKey, s) == IF byKey THEN s ELSE <<>>

\* The nested dispatcher calls of bind(s, typ) or bindValue(s, typ).
Calls(in, byKey, s, typ) ==
  CASE Kind(typ) = "slice" -> bindSliceCalls(ParamsOf(in, byKey, s), PrefixOf(byKey, s), typ)
    [] Kind(typ) = "struct" -> bindStructCalls(ParamsOf(in, byKey, s), PrefixOf(byKey, s), typ)
    [] Kind(typ) = "ptr" -> bindPointCalls(s, typ)
    [] Kind(typ) = "map" -> bindMapCalls(ParamsOf(in, byKey, s), PrefixOf(byKey, s), typ)
    [] OTHER -> <<>>

\* The switch on typ.Kind() of bind (byKey) and of bindValue, rs being what
\* the nested calls returned.
Switch(in, byKey, s, typ, d, rs) ==
  CASE Kind(typ) \in {"int", "uint", "float", "string", "bool"} ->
         IF byKey THEN bindScalar(Query(in, s), typ, d) ELSE bindValueScalar(s, typ, d)
    [] Kind(typ) = "slice" ->
         bindSlice(ParamsOf(in, byKey, s), PrefixOf(byKey, s), typ, d, rs)
    [] Kind(typ) = "struct" ->
         bindStruct(ParamsOf(in, byKey, s), PrefixOf(byKey, s), typ, d, rs)
    [] Kind(typ) = "ptr" -> bindPoint(typ, rs)
    [] Kind(typ) = "map" ->
         bindMap(ParamsOf(in, byKey, s), PrefixOf(byKey, s), typ, d, rs)
    [] OTHER -> NoCase(d)

\* The recursion of the binder: a dispatcher frame at depth d, its nested
\* calls one frame deeper.  A frame past MaxDepth overflows the stack.
RECURSIVE Dispatch(_, _, _, _, _)
Dispatch(in, byKey, s, typ, d) ==
  IF d > MaxDepth THEN Overflow(d)
  ELSE Switch(in, byKey, s, typ, d,
         [i \in 1..Len(Calls(in, byKey, s, typ)) |->
            Dispatch(in, Calls(in, byKey, s, typ)[i].byKey,
                     Calls(in, byKey, s, typ)[i].s,
                     Calls(in, byKey, s, typ)[i].typ, d + 1)])

\* by-key dispatch
bind(in, key, typ, d) == Dispatch(in, TRUE, key, typ, d)

\* by-literal dispatch
bindValue(in, val, typ, d) == Dispatch(in, FALSE, val, typ, d)

\* reflect.Value.IsValid
IsValid(rv) == rv.t # "invalid"

\* Bind without the checks of the destination: it binds and assigns whatever
\* dest is.
BindUnchecked(in, call, dest) ==
  LET r == bind(in, call.key, call.typ, 1)
  IN IF r.st # "ok"
     THEN [st |-> r.st, val |-> dest, looked |-> TRUE, depth |-> r.depth]
     ELSE IF r.rv.t # call.typ
     THEN [st |-> "panic", val |-> dest, looked |-> TRUE, depth |-> r.depth]
     ELSE [st |-> "nil", val |-> r.rv.v, looked |-> TRUE, depth |-> r.depth]

\* BeegoInput.Bind on the call site's arguments: call.mode tells what dest is
\* ("ptr": a pointer to a variable, "value": not a pointer, "nilptr": a nil
\* pointer), dest is the variable's payload.  looked tells whether input.bind,
\* the only reader of the route params and the form, ran.
Bind(in, call, dest) ==
  IF call.mode = "value"
  THEN [st |-> "error", val |-> dest, looked |-> FALSE, depth |-> 0]
  ELSE IF call.mode = "nilptr"
  THEN [st |-> "error", val |-> dest, looked |-> FALSE, depth |-> 0]
  ELSE LET r == bind(in, call.key, call.typ, 1)
       IN IF r.st # "ok"
          THEN [st |-> r.st, val |-> dest, looked |-> TRUE, depth |-> r.depth]
          ELSE IF ~IsValid(r.rv)
          THEN [st |-> "error", val |-> dest, looked |-> TRUE, depth |-> r.depth]
          ELSE IF r.rv.t # call.typ
          THEN [st |-> "panic", val |-> dest, looked |-> TRUE, depth |-> r.depth]
          ELSE [st |-> "nil", val |-> r.rv.v, looked |-> TRUE, depth |-> r.depth]

\* The type a chain of pointers ends in.
RECURSIVE Pointee(_)
Pointee(t) == IF Kind(t) = "ptr" THEN Pointee(Elem(t)) ELSE t

\* Whether Bind(dest, key) reaches Query's read of Request.Form, and so its
\* ParseForm of a nil Request.Form: a nil form has no entry to scan, so only a
\* scalar behind the pointers of the destination type is looked up.
ReachesForm(in, call) ==
  /\ call.mode = "ptr"
  /\ Kind(Pointee(call.typ)) \in {"int", "uint", "float", "string", "bool"}
  /\ Param(in, call.key) = <<>>

\* ------------------------------------------------------------ state
VARIABLES
  Params,    \* input.Params: the route params
  Request,   \* input.Request: URL (the values the request carries), Form, FormIsNil
  call,      \* the call site Bind(&dest, key): [mode, typ, key]
  dest,      \* the destination variable's payload
  ret,       \* what the last Bind returned: [st, looked, depth]
  prev,      \* the previous Bind of this call site: [st, val, form]
  calls      \* Bind calls made so far

vars == <<Params, Request, call, dest, ret, prev, calls>>

\* Every order a range over the keys S can take.
Orders(S) ==
  {o \in [1..Cardinality(S) -> S] : \A i, j \in 1..Cardinality(S) : i # j => o[i] # o[j]}

\* Non-empty sequences over S of length at most n.
SeqsUpTo(S, n) == UNION {[1..l -> S] : l \in 1..n}

Subsets(S, n) == {ks \in SUBSET S : Cardinality(ks) <= n}

NoValue == [st |-> "none", val |-> 0, form |-> <<>>, fresh |-> FALSE]
NotCalled == [st |-> "none", looked |-> FALSE, depth |-> 0, fresh |-> FALSE]

kN == <<"n">>
kA == <<"a">>
Indexed(tok) == <<"a", "[">> \o tok \o <<"]">>
Field(name) == <<"a", ".">> \o name

\* A non-zero value a scalar variable may hold before the call.
Sample(t) ==
  CASE Kind(t) \in {"int", "uint", "float"} -> 5
    [] Kind(t) = "string" -> <<"o", "l", "d">>
    [] Kind(t) = "bool" -> TRUE

\* ---- requests and call sites
ScalarVals ==
  {<<>>, <<"0">>, <<"7">>, <<"-", "1">>, <<"1", "2", "7">>, <<"1", "2", "8">>,
   <<"2", "5", "5">>, <<"2", "5", "6">>, <<"3", "0", "0">>, <<"-", "1", "2", "9">>,
   <<"7", "0", "0", "0", "0">>, <<"x">>, <<"1", ".", "5">>, <<" ", "O", "N">>}

\* Bind(&v, "n") for a scalar v, or with a bad destination.
InitScalar ==
  /\ call \in [mode : {"ptr", "value", "nilptr"}, typ : ScalarTypes, key : {kN}]
  /\ dest \in {ZeroV(call.typ), Sample(call.typ)}
  /\ Params \in {<<>>, [k \in {kN} |-> <<"9">>], [k \in {kN} |-> <<>>]}
  /\ \E vs \in Subsets(ScalarVals, 1) :
       \E nil \in BOOLEAN :
         Request = [URL |-> [k \in {kN : v \in vs} |-> <<CHOOSE v \in vs : TRUE>>],
                    Form |-> IF nil THEN <<>>
                             ELSE [k \in {kN : v \in vs} |-> <<CHOOSE v \in vs : TRUE>>],
                    FormIsNil |-> nil]

Parsed(form) == [URL |-> form, Form |-> form, FormIsNil |-> FALSE]

SliceKeys ==
  {Indexed(<<"0">>), Indexed(<<"1">>), Indexed(<<"0", "1">>), Indexed(<<>>),
   Indexed(<<"x">>), Indexed(<<"-", "2">>), <<"a", "[">>}
SliceVals == {<<>>, <<"7">>, <<"x">>}

\* Bind(&s, "a") for a slice s: up to MaxKeys keys under a[, one value each,
\* and up to MaxVals values under one of a[] and a[x].
InitSlice ==
  /\ call \in [mode : {"ptr"}, typ : {"[]int", "[]string"}, key : {kA}]
  /\ dest = ZeroV(call.typ)
  /\ Params = <<>>
  /\ \E ks \in Subsets(SliceKeys, MaxKeys) :
       \E f \in [ks -> SliceVals] :
         \E extra \in {[at |-> <<>>, more |-> <<>>]} \cup
                      [at : ks \cap {Indexed(<<>>), Indexed(<<"x">>)},
                       more : SeqsUpTo(SliceVals, MaxVals - 1)] :
           Request = Parsed([k \in ks |-> IF k = extra.at
                                          THEN <<f[k]>> \o extra.more ELSE <<f[k]>>])

\* Bind(&s, "a") for every element type, one entry.
InitElem ==
  /\ call \in [mode : {"ptr"}, typ : SliceTypes, key : {kA}]
  /\ dest = ZeroV(call.typ)
  /\ Params = <<>>
  /\ \E k \in {Indexed(<<"0">>), Indexed(<<>>)} :
       \E v \in SliceVals \cup {<<"n">>} :
         \E n \in SUBSET {kN} :
           Request = Parsed([x \in {k} \cup n |-> IF x = k THEN <<v>> ELSE << <<"7">> >>])

StructKeys ==
  {Field(<<"N">>), Field(<<"A">>), Field(<<"B">>), Field(<<"s">>), Field(<<"X">>),
   Field(<<"N", ".", "N">>)}
StructVals == {<<>>, <<"7">>, <<"o", "n">>}

\* Bind(&u, "a") for a struct u: each key carries a first value and up to
\* MaxVals - 1 later ones.
InitStruct ==
  /\ call \in [mode : {"ptr"}, typ : {"User"}, key : {kA}]
  /\ dest = ZeroV(call.typ)
  /\ Params = <<>>
  /\ \E ks \in Subsets(StructKeys, MaxKeys) :
       \E f \in [ks -> StructVals \X (0..(MaxVals - 1))] :
         Request = Parsed([k \in ks |->
                             <<f[k][1]>> \o [i \in 1..f[k][2] |-> <<"z">>]])

MapKeys ==
  {Indexed(<<"x">>), Indexed(<<"y">>), Indexed(<<"1">>), Indexed(<<"0", "1">>),
   Indexed(<<>>), <<"a", "[">>, Indexed(<<"x">>) \o <<"z">>}

\* Bind(&m, "a") for a map m.
InitMap ==
  /\ call \in [mode : {"ptr"}, typ : MapTypes, key : {kA}]
  /\ dest = ZeroV(call.typ)
  /\ Params = <<>>
  /\ \E ks \in Subsets(MapKeys, MaxKeys) :
       \E f \in [ks -> SliceVals] : Request = Parsed([k \in ks |-> <<f[k]>>])

PointKeys ==
  {kN, Indexed(<<"0">>), Indexed(<<"x">>), Field(<<"N">>), Field(<<"P">>),
   Field(<<"L">>)}
PointVals == {<<>>, <<"7">>, <<"n">>, <<"a">>}

\* Bind(&p, key) for a pointer p, and for the structs with pointer fields;
\* a form value may be the name of a form key.
InitPoint ==
  /\ call \in [mode : {"ptr"}, typ : PtrTypes \cup {"Holder", "Node"}, key : {kN, kA}]
  /\ call.key = kN <=> Kind(Pointee(call.typ)) \in {"int", "uint", "float", "string", "bool"}
  /\ dest = ZeroV(call.typ)
  /\ Params = <<>>
  /\ \E ks \in Subsets(PointKeys, MaxKeys) :
       \E f \in [ks -> PointVals] : Request = Parsed([k \in ks |-> <<f[k]>>])

Init ==
  /\ \/ InitScalar
     \/ InitSlice
     \/ InitElem
     \/ InitStruct
     \/ InitMap
     \/ InitPoint
  /\ ret = NotCalled
  /\ prev = NoValue
  /\ calls = 0

\* ---- actions
\* ParseFormOrMulitForm: Request.ParseForm fills a nil Request.Form.
ParseFormOrMulitForm ==
  /\ Request.FormIsNil
  /\ Request' = [Request EXCEPT !.Form = Request.URL, !.FormIsNil = FALSE]
  /\ UNCHANGED <<Params, call, dest, ret, prev, calls>>

\* The input one Bind call works on, ord being the order its range
\* statements over Request.Form take.
Input(ord) ==
  [Params |-> Params,
   Form |-> [m |-> Request.Form, ord |-> ord],
   Parsed |-> IF Request.FormIsNil THEN Request.URL ELSE Request.Form]

\* input.Bind(&dest, key) at the call site.
BindCall ==
  /\ ret.st = "none"
  /\ \E ord \in Orders(DOMAIN Request.Form) :
       LET out == Bind(Input(ord), call, dest)
       IN /\ dest' = out.val
          /\ ret' = [st |-> out.st, looked |-> out.looked, depth |-> out.depth,
                     fresh |-> dest = ZeroV(call.typ)]
          /\ Request' = IF Request.FormIsNil /\ ReachesForm(Input(ord), call)
                        THEN [Request EXCEPT !.Form = Request.URL, !.FormIsNil = FALSE]
                        ELSE Request
  /\ calls' = calls + 1
  /\ UNCHANGED <<Params, call, prev>>

\* The handler declares a fresh destination of the same type for its next
\* Bind; a stack overflow has ended the process.
Declare ==
  /\ ret.st \in {"nil", "error", "panic"}
  /\ calls < MaxCalls
  /\ prev' = [st |-> ret.st, val |-> dest, form |-> Request.Form, fresh |-> ret.fresh]
  /\ dest' = ZeroV(call.typ)
  /\ ret' = NotCalled
  /\ UNCHANGED <<Params, Request, call, calls>>

Next == ParseFormOrMulitForm \/ BindCall \/ Declare

Spec == Init /\ [][Next]_vars


\* ------------------------------------------------------------ properties
\* The value Query finds for the call site's key.
Found == Query(Input(<<>>), call.key)

\* C1: Bind fails on a destination that is not a pointer, or is a nil
\* pointer, before any lookup, leaving the destination, the route params and
\* the form as they were; and on every error return the destination holds the
\* value it held before the call.
C1_BadDestinationFails ==
  [][(ret.st = "none" /\ ret'.st # "none") =>
       /\ call.mode # "ptr" =>
            /\ ret'.st = "error"
            /\ ~ret'.looked
            /\ dest' = dest
            /\ Params' = Params
            /\ Request' = Request
       /\ ret'.st = "error" => dest' = dest]_vars

C1_Witness ==
  /\ ret.st = "error"
  /\ call.mode = "nilptr"
  /\ call.typ = "string"
  /\ dest = <<"o", "l", "d">>
  /\ Request.FormIsNil
  /\ kN \in DOMAIN Request.URL

\* C2: binding a scalar whose key has no value (absent, or the empty string)
\* completes without a run-time fault, and the destination then holds the
\* zero value of its own type.
C2_MissingScalarIsZero ==
  (ret.st # "none" /\ call.mode = "ptr" /\ call.typ \in ScalarTypes /\ Found = <<>>)
    => (ret.st = "nil" /\ dest = ZeroV(call.typ))

\* A decimal string, and the number it is the text of.
IsDecimal(s) == ~ParseInt(s).err
InRange(n, typ) ==
  IF typ \in IntTypes
  THEN (Bits(typ) >= 32 \/ (n >= 0 - 2 ^ (Bits(typ) - 1) /\ n < 2 ^ (Bits(typ) - 1)))
  ELSE n >= 0 /\ (Bits(typ) >= 32 \/ n < 2 ^ Bits(typ))

\* C3: binding a decimal string inside the range of an integer kind yields
\* that number; one outside the range, or a non-numeric string, yields zero,
\* never a wrapped number and never an error.
C3_IntegerInRangeOrZero ==
  (/\ ret.st # "none"
   /\ call.mode = "ptr"
   /\ call.typ \in IntTypes \cup UintTypes
   /\ Found # <<>>)
    => /\ ret.st = "nil"
       /\ dest = IF IsDecimal(Found) /\ InRange(ParseInt(Found).n, call.typ)
                 THEN ParseInt(Found).n ELSE 0

\* The entries of the form under the call site's prefix a[ .
SliceEntries == {k \in DOMAIN Request.Form : HasPrefix(k, <<"a", "[">>)}

\* The text between a[ and the first ] of a key, "" when there is no ].
Token(k) ==
  IF IndexOf(k, "]") = -1 THEN <<>> ELSE Slice(k, 2, IndexOf(k, "]"))

\* A key a[N] for a non-negative decimal N, and nothing after the ].
IsIndexKey(k) ==
  /\ IndexOf(k, "]") = Len(k) - 1
  /\ AllDigits(Token(k))

\* The form of the layout claim: keys a[N] with pairwise distinct N and
\* optionally a[].
LayoutForm ==
  /\ \A k \in SliceEntries : IsIndexKey(k) \/ k = Indexed(<<>>)
  /\ \A k1, k2 \in SliceEntries :
       (IsIndexKey(k1) /\ IsIndexKey(k2) /\ k1 # k2)
         => DigitsValue(Token(k1)) # DigitsValue(Token(k2))

IndexKeys == {k \in SliceEntries : IsIndexKey(k)}
MaxN ==
  IF IndexKeys = {} THEN -1
  ELSE CHOOSE n \in {DigitsValue(Token(k)) : k \in IndexKeys} :
         \A k \in IndexKeys : DigitsValue(Token(k)) <= n
Unindexed ==
  IF Indexed(<<>>) \in DOMAIN Request.Form THEN Request.Form[Indexed(<<>>)] ELSE <<>>

\* What a form value is as an element of the slice type: the number of a
\* decimal string (0 for other text) for []int, the text itself for []string.
AsElem(typ, v) ==
  IF typ = "[]int" THEN (IF IsDecimal(v) THEN ParseInt(v).n ELSE 0) ELSE v

\* An indexed key carries the empty string and the elements are not ints: the
\* bind faults (C5) before there is a result to lay out.
EmptyIndexedElem ==
  call.typ # "[]int" /\ \E k \in IndexKeys : Request.Form[k][1] = <<>>

PlainComposites ==
  {"[]int", "[]int8", "[]string", "[]bool", "[]float64", "User",
   "map[string]int", "map[int]string"}

\* C5: a bad element value (empty, or not valid text for the element type)
\* inside a slice, struct or map does not abort the bind: Bind completes
\* without a run-time fault.
C5_BadElementIsLenient ==
  (ret.st # "none" /\ call.typ \in PlainComposites) => ret.st = "nil"

\* C6: binding a pointer destination completes without a run-time fault and
\* yields a non-null reference, also when there is no matching data.
C6_PointerNeverNull ==
  (ret.st # "none" /\ call.typ \in PtrTypes \ {"*Node"})
    => (ret.st = "nil" /\ ~dest.isnil)

\* What a form value is as a field of User.
AsField(f, v) ==
  CASE f = "N" -> v
    [] f = "A" -> (IF IsDecimal(v) THEN ParseInt(v).n ELSE 0)
    [] f = "B" -> v \in {<<"o", "n">>, <<"1">>, <<"t", "r", "u", "e">>}
    [] f = "s" -> v

\* C7: after binding a struct, each settable field with a key a.F holds the
\* first value of the key, each other field its zero value; keys of unknown
\* or unsettable fields, or with a further dot, change nothing and raise no
\* error.
C7_StructFirstValue ==
  (ret.st # "none" /\ call.typ = "User")
    => /\ ret.st = "nil"
       /\ \A f \in DOMAIN Fields("User") :
            dest[f] =
              IF Field(<<f>>) \in DOMAIN Request.Form /\ Fields("User")[f].exported
              THEN AsField(f, Request.Form[Field(<<f>>)][1])
              ELSE ZeroV(Fields("User")[f].typ)

C7_Witness ==
  /\ ret.st = "nil"
  /\ call.typ = "User"
  /\ DOMAIN Request.Form = {Field(<<"N">>), Field(<<"s">>)}
  /\ Request.Form[Field(<<"N">>)] = << <<"7">>, <<"z">> >>
  /\ Request.Form[Field(<<"s">>)] = << <<"7">> >>
  /\ dest.N = <<"7">>
  /\ dest.s = <<>>

\* C8: binding the same form and key into two fresh destinations of the same
\* type yields identical results, whatever order the form is iterated in.
C8_Deterministic ==
  (prev.st # "none" /\ prev.fresh /\ ret.st # "none" /\ prev.form = Request.Form)
    => (prev.st = ret.st /\ prev.val = dest)

\* The nesting depth of a destination type without cycles: a scalar is 1, a
\* composite one more than its deepest component.
RECURSIVE TypeNest(_)
TypeNest(t) ==
  CASE Kind(t) \in {"slice", "ptr"} -> 1 + TypeNest(Elem(t))
    [] Kind(t) = "map" -> 1 + Max(TypeNest(KeyType(t)), TypeNest(Elem(t)))
    [] Kind(t) = "struct" ->
         1 + (CHOOSE n \in {TypeNest(Fields(t)[f].typ) : f \in DOMAIN Fields(t)} :
                \A f \in DOMAIN Fields(t) : TypeNest(Fields(t)[f].typ) <= n)
    [] OTHER -> 1

\* C9: every Bind call terminates, and the recursion never goes deeper than
\* the nesting depth of the destination type, whatever the form holds.
C9_RecursionBoundedByType ==
  /\ ret.st # "overflow"
  /\ (ret.st # "none" /\ call.typ \notin {"Node", "*Node"})
       => ret.depth <= TypeNest(call.typ)

\* The values the form holds under a[ .
RECURSIVE CountValues(_)
CountValues(ks) ==
  IF ks = {} THEN 0
  ELSE LET k == CHOOSE x \in ks : TRUE
       IN Len(Request.Form[k]) + CountValues(ks \ {k})

\* C10: only a key whose bracket token is the decimal text of a non-negative
\* integer is placed at an index; a key with empty brackets, with another
\* token (a[x], a[-2]) or without a closing bracket only appends, so a form
\* of such keys alone binds to as many elements as it holds values.
C10_OnlyNumbersAreIndexed ==
  (/\ ret.st = "nil"
   /\ call.typ \in {"[]int", "[]string"}
   /\ \A k \in SliceEntries : ~IsIndexKey(k))
    => Len(dest) = CountValues(SliceEntries)


====
